---- MODULE Spec2Model ----
(***************************************************************************)
(* Graceful restart of the controllers that own the pods whose name        *)
(* contains "database" (src/main.go).  The program is single-threaded:     *)
(* main lists all pods once, then walks the list; every step below is the  *)
(* code between two calls of the cluster API.  The API is the environment: *)
(* each call nondeterministically succeeds or returns an error.            *)
(***************************************************************************)
EXTENDS Integers, Sequences, FiniteSets, TLC

VARIABLES
    pods,       \* pods.Items: the snapshot returned by the single List call
    idx,        \* position of main's range loop in pods.Items
    pc,         \* control point: scan, owner, get, update, create, wait, delete, done
    oi,         \* position of restartResourceFromPod's range loop in ownerRefs
    cur,        \* controller the dispatcher is working on: [kind, name]
    newPod,     \* instance.Name: the replacement created by restartPod
    elapsed,    \* time.Since(start) in seconds, as read at the head of the wait loop
    lastPoll,   \* the latest isPodRunning call of the wait loop: [name, namespace, running,
                \* phase]; phase is kept only where the polls are followed in detail
    restarted,  \* main's `restarted []string`
    allErrs,    \* main's `allErrs []podError`
    calls,      \* history: the Get/Update/Create/Delete calls issued so far
    cluster     \* the pods that exist in the cluster: <<name, namespace>>

vars == <<pods, idx, pc, oi, cur, newPod, elapsed, lastPoll, restarted, allErrs, calls, cluster>>

-----------------------------------------------------------------------------
(* Program constants, src/main.go:19-25 *)

DatabaseMatch == "database"
ValidNameMaxLength == 255
WaitForRestartTimeout == 300
ConfigRestartInterval == 2
ConfigNameSuffixLength == 5

(* Bounds of the model *)

MaxPods == 2        \* longest list the List call returns
MaxFairPods == 1    \* longest list the List call returns in FairSpec
MaxScanPods == 2    \* longest list the List call returns in ScanSpec
MaxWaitPods == 1    \* longest list the List call returns in WaitSpec
MaxLatency == 1     \* longest time (s) one status poll takes on top of the sleep
MaxNameLen == 262   \* longest pod name handed to restartPod in NameSpec

-----------------------------------------------------------------------------
(* Helpers *)

\* strings.Contains(s, sub): literal, case-sensitive substring
StrContains(s, sub) ==
    \E i \in 1..(Len(s) - Len(sub) + 1) : SubSeq(s, i, i + Len(sub) - 1) = sub

\* slices.Contains(list, x)
SliceContains(list, x) == \E i \in 1..Len(list) : list[i] = x

NoRef == [kind |-> "", name |-> ""]
NoPoll == [name |-> "", namespace |-> "", running |-> FALSE, phase |-> ""]

-----------------------------------------------------------------------------
(* The cluster the run is started against *)

Ref(k, n) == [kind |-> k, name |-> n]
Pod(n, ns, refs) == [name |-> n, namespace |-> ns, ownerRefs |-> refs]

\* rs.OwnerReferences of the ReplicaSet the Get call returns
ReplicaSetOwners(name, namespace) ==
    CASE name = "rs1" /\ namespace = "ns1" -> <<Ref("Deployment", "d")>>
      [] name = "rs2" /\ namespace = "ns1" -> <<Ref("Job", "j"), Ref("Deployment", "d")>>
      [] OTHER -> <<>>

PodUniverse ==
    { Pod("database-a", "ns1", <<Ref("ReplicaSet", "rs1")>>),
      Pod("database-b", "ns1", <<Ref("ReplicaSet", "rs2")>>),
      Pod("database-c", "ns1", <<Ref("Job", "j"), Ref("ReplicaSet", "rs1"), Ref("StatefulSet", "s")>>),
      Pod("database", "ns1", <<>>),
      Pod("database", "ns2", <<>>),
      Pod("web", "ns1", <<>>),
      Pod("database-o", "ns2", <<Ref("ReplicaSet", "rs3"), Ref("", "x")>>),
      Pod("database-d", "ns1", <<Ref("Deployment", "d"), Ref("DaemonSet", "e")>>),
      Pod("database-e", "ns1", <<Ref("DaemonSet", "e")>>) }

\* every list of distinct pods the List call can return, up to max long
PodListsUpTo(max) ==
    UNION { { s \in [1..n -> PodUniverse] : \A i, j \in 1..n : i # j => s[i] # s[j] }
            : n \in 1..max }

PodLists == PodListsUpTo(MaxPods)

\* phases a status poll can report, and "GetError" for a failed Get
PollOutcomes == {"GetError", "Pending", "Running", "Succeeded", "Failed"}

\* characters rand.String draws from (a sample of its alphabet)
RandAlphabet == {"b", "c"}

RECURSIVE Repeat(_, _)
Repeat(c, n) == IF n = 0 THEN "" ELSE Repeat(c, n - 1) \o c

\* rand.String(n): a token of n characters
RandString(n) == { Repeat(c, n) : c \in RandAlphabet }

-----------------------------------------------------------------------------
(* Pure functions of the program *)

getResourceType(name) ==
    CASE name = "ReplicaSet" -> "ReplicaSet"
      [] name = "Deployment" -> "Deployment"
      [] name = "StatefulSet" -> "StatefulSet"
      [] name = "DaemonSet" -> "DaemonSet"
      [] name = "" -> "Pod"
      [] OTHER -> "unsupported"

newSuffixPodName(name, suffix) == name \o "-" \o suffix

\* a slip: the name is cut as soon as it is as long as the maximum
NewPodNameCutAtMax(name, suffix) ==
    IF Len(name) >= ValidNameMaxLength
    THEN newSuffixPodName(SubSeq(name, 1, Len(name) - ConfigNameSuffixLength), suffix)
    ELSE newSuffixPodName(name, suffix)

\* restartPod, lines 229-235: the name of the replacement
NewPodName(name, suffix) ==
    IF Len(name) > ValidNameMaxLength
    THEN newSuffixPodName(SubSeq(name, 1, Len(name) - ConfigNameSuffixLength), suffix)
    ELSE newSuffixPodName(name, suffix)

\* fmt.Sprintf("%s|%s|%s", ownerRef.Name, ownerRef.Kind, pod.Namespace)
MatchKey(ownerRef, pod) == ownerRef.name \o "|" \o ownerRef.kind \o "|" \o pod.namespace

\* a slip: a replacement that has run to completion counts as running
isPodRunningOrSucceeded(outcome) ==
    IF outcome = "GetError" THEN FALSE
    ELSE CASE outcome \in {"Running", "Succeeded"} -> TRUE
           [] outcome = "Failed" -> FALSE
           [] OTHER -> FALSE

\* isPodRunning: the Get failed or any phase but Running gives false
isPodRunning(outcome) ==
    IF outcome = "GetError" THEN FALSE
    ELSE CASE outcome = "Running" -> TRUE
           [] outcome \in {"Succeeded", "Failed"} -> FALSE
           [] OTHER -> FALSE

\* a slip: the wait ends when the elapsed time reaches the timeout
WaitExpiredAtTimeout(e) == e >= WaitForRestartTimeout

\* time.Since(start) > WaitForRestartTimeout
WaitExpired(e) == e > WaitForRestartTimeout

\* a slip: no owner of the ReplicaSet is recognised as a Deployment
NoDeploymentOwner(refs) == 0

\* restartReplicaSet's loop: index of the first owner classified Deployment, 0 if none
FirstDeploymentOwner(refs) ==
    LET hits == { i \in 1..Len(refs) : getResourceType(refs[i].kind) = "Deployment" }
    IN  IF hits = {} THEN 0 ELSE CHOOSE i \in hits : \A j \in hits : i <= j

-----------------------------------------------------------------------------
(* State *)

\* the state main is in when the List call has returned `list`
InitWith(list) ==
    /\ pods = list
    /\ idx = 1
    /\ pc = "scan"
    /\ oi = 0
    /\ cur = NoRef
    /\ newPod = ""
    /\ elapsed = 0
    /\ lastPoll = NoPoll
    /\ restarted = <<>>
    /\ allErrs = <<>>
    /\ calls = <<>>
    /\ cluster = { <<list[i].name, list[i].namespace>> : i \in 1..Len(list) }

Init == \E list \in PodLists : InitWith(list)

pod == pods[idx]
ownerRef == pod.ownerRefs[oi]

\* one call of the cluster API, as recorded in the history
Call(op, kind, name, namespace, key, ok) ==
    [op |-> op, kind |-> kind, name |-> name, namespace |-> namespace,
     key |-> key, at |-> idx, ok |-> ok]

\* a slip: the first failing candidate ends the scan
ReturnErrAbort(err) ==
    /\ allErrs' = Append(allErrs, [name |-> pod.name, restartError |-> err])
    /\ idx' = idx
    /\ pc' = "done"
    /\ oi' = 0
    /\ cur' = NoRef
    /\ newPod' = ""
    /\ elapsed' = 0
    /\ lastPoll' = NoPoll
    /\ UNCHANGED <<pods, restarted>>

\* a slip: a failing owner reference is reported but the owner loop goes on
ReturnErrAndContinue(err) ==
    IF oi > 0
    THEN /\ allErrs' = Append(allErrs, [name |-> pod.name, restartError |-> err])
         /\ oi' = oi + 1
         /\ pc' = "owner"
         /\ cur' = NoRef
         /\ UNCHANGED <<pods, idx, newPod, elapsed, lastPoll, restarted>>
    ELSE /\ allErrs' = Append(allErrs, [name |-> pod.name, restartError |-> err])
         /\ idx' = idx + 1
         /\ pc' = "scan"
         /\ oi' = 0
         /\ cur' = NoRef
         /\ newPod' = ""
         /\ elapsed' = 0
         /\ lastPoll' = NoPoll
         /\ UNCHANGED <<pods, restarted>>

\* restartResourceFromPod returns err: main appends podError{pod.Name, err} and continues
ReturnErr(err) ==
    /\ allErrs' = Append(allErrs, [name |-> pod.name, restartError |-> err])
    /\ idx' = idx + 1
    /\ pc' = "scan"
    /\ oi' = 0
    /\ cur' = NoRef
    /\ newPod' = ""
    /\ elapsed' = 0
    /\ lastPoll' = NoPoll
    /\ UNCHANGED <<pods, restarted>>

\* restartResource returned nil for ownerRef: record the key, next owner reference
OwnerDone ==
    /\ restarted' = Append(restarted, MatchKey(ownerRef, pod))
    /\ oi' = oi + 1
    /\ pc' = "owner"
    /\ cur' = NoRef
    /\ UNCHANGED <<pods, idx, newPod, elapsed, lastPoll, allErrs>>

\* restartPod returned nil: record the pod's name; the owner loop is empty, return nil
PodDone ==
    /\ restarted' = Append(restarted, pod.name)
    /\ idx' = idx + 1
    /\ pc' = "scan"
    /\ newPod' = ""
    /\ elapsed' = 0
    /\ lastPoll' = NoPoll
    /\ UNCHANGED <<pods, oi, cur, allErrs>>

-----------------------------------------------------------------------------
(* main, lines 75-93 *)

\* line 77: the pod's name does not contain the match string
SkipPod ==
    /\ pc = "scan"
    /\ idx <= Len(pods)
    /\ ~StrContains(pod.name, DatabaseMatch)
    /\ idx' = idx + 1
    /\ UNCHANGED <<pods, pc, oi, cur, newPod, elapsed, lastPoll, restarted, allErrs, calls, cluster>>

\* lines 81-82 and 162-170: call restartResourceFromPod; no owner references: restartPod
EnterPod ==
    /\ pc = "scan"
    /\ idx <= Len(pods)
    /\ StrContains(pod.name, DatabaseMatch)
    /\ IF Len(pod.ownerRefs) = 0
       THEN pc' = "create" /\ oi' = 0
       ELSE pc' = "owner" /\ oi' = 1
    /\ UNCHANGED <<pods, idx, cur, newPod, elapsed, lastPoll, restarted, allErrs, calls, cluster>>

\* lines 89-93: the list is exhausted, print the report
Finish ==
    /\ pc = "scan"
    /\ idx > Len(pods)
    /\ pc' = "done"
    /\ UNCHANGED <<pods, idx, oi, cur, newPod, elapsed, lastPoll, restarted, allErrs, calls, cluster>>

-----------------------------------------------------------------------------
(* restartResourceFromPod, lines 172-193, and restartResource, lines 211-226 *)

\* line 174: the kinds the owner loop skips
IsSkippedType(resourceType) == resourceType = "unknown"

\* a slip: the ledger is never consulted
NeverRestarted(match) == FALSE

\* a slip: a key counts as restarted as soon as a call was made for it
AlreadyAttempted(match) ==
    \/ SliceContains(restarted, match)
    \/ \E i \in 1..Len(calls) : calls[i].key = match

\* line 182: the ledger already holds the key
AlreadyRestarted(match) == SliceContains(restarted, match)

\* `continue`
NextOwner ==
    /\ oi' = oi + 1
    /\ UNCHANGED <<pods, idx, pc, cur, newPod, elapsed, lastPoll, restarted, allErrs>>

\* restartResource's switch: the kinds that start with a Get of the controller
Dispatch(resourceType) ==
    IF resourceType \in {"ReplicaSet", "Deployment", "StatefulSet", "DaemonSet"}
    THEN /\ pc' = "get"
         /\ cur' = Ref(resourceType, ownerRef.name)
         /\ UNCHANGED <<pods, idx, oi, newPod, elapsed, lastPoll, restarted, allErrs>>
    ELSE OwnerDone  \* no case matches: return nil

\* a slip: an owner reference of empty kind sends the pod itself to restartPod
OwnerRefClonesEmptyKind ==
    /\ pc = "owner"
    /\ oi <= Len(pod.ownerRefs)
    /\ LET resourceType == getResourceType(ownerRef.kind)
           match == MatchKey(ownerRef, pod)
       IN  IF IsSkippedType(resourceType) THEN NextOwner
           ELSE IF resourceType # "Pod"
                THEN IF AlreadyRestarted(match) THEN NextOwner
                     ELSE Dispatch(resourceType)
                ELSE /\ pc' = "create"
                     /\ UNCHANGED <<pods, idx, oi, cur, newPod, elapsed, lastPoll,
                                    restarted, allErrs>>
    /\ UNCHANGED <<calls, cluster>>

\* one iteration of the owner loop, up to the first API call
OwnerRef ==
    /\ pc = "owner"
    /\ oi <= Len(pod.ownerRefs)
    /\ LET resourceType == getResourceType(ownerRef.kind)
           match == MatchKey(ownerRef, pod)
       IN  IF IsSkippedType(resourceType) THEN NextOwner
           ELSE IF resourceType # "Pod"
                THEN IF AlreadyRestarted(match) THEN NextOwner
                     ELSE Dispatch(resourceType)
                ELSE NextOwner
    /\ UNCHANGED <<calls, cluster>>

\* line 193: the owner loop is over, return nil
OwnerLoopEnd ==
    /\ pc = "owner"
    /\ oi > Len(pod.ownerRefs)
    /\ idx' = idx + 1
    /\ pc' = "scan"
    /\ oi' = 0
    /\ UNCHANGED <<pods, cur, newPod, elapsed, lastPoll, restarted, allErrs, calls, cluster>>

-----------------------------------------------------------------------------
(* restartDeployment, restartDaemonSet, restartStatefulSet, restartReplicaSet *)

\* lines 116, 131, 146, 197: Get the controller
GetResource ==
    /\ pc = "get"
    /\ \E ok \in BOOLEAN :
        /\ calls' = Append(calls, Call("Get", cur.kind, cur.name, pod.namespace,
                                       MatchKey(ownerRef, pod), ok))
        /\ IF ~ok THEN ReturnErr("GetError")
           ELSE IF cur.kind = "ReplicaSet"
                THEN LET refs == ReplicaSetOwners(cur.name, pod.namespace)
                         i == FirstDeploymentOwner(refs)
                     IN  IF i = 0 THEN OwnerDone
                         ELSE /\ cur' = Ref("Deployment", refs[i].name)
                              /\ UNCHANGED <<pods, idx, pc, oi, newPod, elapsed, lastPoll,
                                             restarted, allErrs>>
                ELSE /\ pc' = "update"
                     /\ UNCHANGED <<pods, idx, oi, cur, newPod, elapsed, lastPoll,
                                    restarted, allErrs>>
    /\ UNCHANGED cluster

\* lines 124-127, 139-142, 154-157: set the restartedAt annotation and Update
UpdateResource ==
    /\ pc = "update"
    /\ \E ok \in BOOLEAN :
        /\ calls' = Append(calls, Call("Update", cur.kind, cur.name, pod.namespace,
                                       MatchKey(ownerRef, pod), ok))
        /\ IF ok THEN OwnerDone ELSE ReturnErr("UpdateError")
    /\ UNCHANGED cluster

-----------------------------------------------------------------------------
(* restartPod, lines 228-265 *)

\* a slip: the scan reads a live list, the replacement shows up at its end
CreatePodIntoList ==
    /\ pc = "create"
    /\ \E suffix \in RandString(ConfigNameSuffixLength - 1), ok \in BOOLEAN :
        LET newPodName == NewPodName(pod.name, suffix) IN
        /\ ok => <<newPodName, pod.namespace>> \notin cluster
        /\ calls' = Append(calls, Call("Create", "Pod", newPodName, pod.namespace, pod.name, ok))
        /\ IF ok
           THEN /\ cluster' = cluster \cup {<<newPodName, pod.namespace>>}
                /\ pods' = Append(pods, Pod(newPodName, pod.namespace, <<>>))
                /\ newPod' = newPodName
                /\ elapsed' = 0
                /\ pc' = "wait"
                /\ UNCHANGED <<idx, oi, cur, lastPoll, restarted, allErrs>>
           ELSE /\ ReturnErr("CreateError")
                /\ UNCHANGED cluster

\* a slip: a failed Create is not returned, the wait for the replacement starts anyway
CreatePodIgnoringError ==
    /\ pc = "create"
    /\ \E suffix \in RandString(ConfigNameSuffixLength - 1), ok \in BOOLEAN :
        LET newPodName == NewPodName(pod.name, suffix) IN
        /\ ok => <<newPodName, pod.namespace>> \notin cluster
        /\ calls' = Append(calls, Call("Create", "Pod", newPodName, pod.namespace, pod.name, ok))
        /\ cluster' = IF ok THEN cluster \cup {<<newPodName, pod.namespace>>} ELSE cluster
        /\ newPod' = newPodName
        /\ elapsed' = 0
        /\ pc' = "wait"
        /\ UNCHANGED <<pods, idx, oi, cur, lastPoll, restarted, allErrs>>

\* lines 229-249: name the replacement and Create it
CreatePod ==
    /\ pc = "create"
    /\ \E suffix \in RandString(ConfigNameSuffixLength - 1), ok \in BOOLEAN :
        LET newPodName == NewPodName(pod.name, suffix) IN
        /\ ok => <<newPodName, pod.namespace>> \notin cluster
        /\ calls' = Append(calls, Call("Create", "Pod", newPodName, pod.namespace, pod.name, ok))
        /\ IF ok
           THEN /\ cluster' = cluster \cup {<<newPodName, pod.namespace>>}
                /\ newPod' = newPodName
                /\ elapsed' = 0
                /\ pc' = "wait"
                /\ UNCHANGED <<pods, idx, oi, cur, lastPoll, restarted, allErrs>>
           ELSE /\ ReturnErr("CreateError")
                /\ UNCHANGED cluster

\* a slip: the timeout is returned as an error
TimedOutAsError ==
    /\ pc = "wait"
    /\ WaitExpired(elapsed)
    /\ ReturnErr("TimeoutError")
    /\ UNCHANGED <<calls, cluster>>

\* lines 253-256: the wait is over, break and return nil
TimedOut ==
    /\ pc = "wait"
    /\ WaitExpired(elapsed)
    /\ PodDone
    /\ UNCHANGED <<calls, cluster>>

\* what isPodRunning can report for the replacement; detail keeps the phase behind it
PollResults(detail) ==
    { [name |-> newPod, namespace |-> pod.namespace, running |-> isPodRunning(outcome),
       phase |-> IF detail THEN outcome ELSE ""] : outcome \in PollOutcomes }

\* lines 257-261: one iteration of the wait loop that is not timed out
PollStep(detail) ==
    /\ pc = "wait"
    /\ ~WaitExpired(elapsed)
    /\ \E result \in PollResults(detail) :
        /\ lastPoll' = result
        /\ IF result.running
           THEN pc' = "delete" /\ elapsed' = elapsed
           ELSE /\ pc' = "wait"
                /\ \E latency \in 0..MaxLatency :
                     elapsed' = elapsed + ConfigRestartInterval + latency
    /\ UNCHANGED <<pods, idx, oi, cur, newPod, restarted, allErrs, calls, cluster>>

\* a slip: the original is deleted after the first poll, whatever it reports
PollOnce ==
    /\ pc = "wait"
    /\ ~WaitExpired(elapsed)
    /\ \E running \in {isPodRunning(outcome) : outcome \in PollOutcomes} :
        /\ lastPoll' = [name |-> newPod, namespace |-> pod.namespace, running |-> running,
                        phase |-> ""]
        /\ pc' = "delete"
        /\ elapsed' = elapsed
    /\ UNCHANGED <<pods, idx, oi, cur, newPod, restarted, allErrs, calls, cluster>>

\* lines 257-261: poll the replacement; Running leads to the Delete, else sleep
Poll == PollStep(FALSE)

\* the same step, with the phase the Get reported kept in lastPoll
PollPhase == PollStep(TRUE)

\* the identity restartPod hands to deletePod, line 259
DeleteTarget == <<pod.name, pod.namespace>>

\* lines 259 and 267-269: Delete the original
DeletePod ==
    /\ pc = "delete"
    /\ \E ok \in BOOLEAN :
        /\ calls' = Append(calls, Call("Delete", "Pod", DeleteTarget[1], DeleteTarget[2],
                                       pod.name, ok))
        /\ IF ok
           THEN /\ cluster' = cluster \ {DeleteTarget}
                /\ PodDone
           ELSE /\ ReturnErr("DeleteError")
                /\ UNCHANGED cluster

-----------------------------------------------------------------------------

Next ==
    \/ SkipPod
    \/ EnterPod
    \/ Finish
    \/ OwnerRef
    \/ OwnerLoopEnd
    \/ GetResource
    \/ UpdateResource
    \/ CreatePod
    \/ TimedOut
    \/ Poll
    \/ DeletePod

Spec == Init /\ [][Next]_vars

\* the program is one thread that always takes its next step
FairInit == \E list \in PodListsUpTo(MaxFairPods) : InitWith(list)

FairSpec == FairInit /\ [][Next]_vars /\ WF_vars(Next)

\* the same program, with the phase of every poll kept in the state
WaitNext ==
    \/ SkipPod
    \/ EnterPod
    \/ Finish
    \/ OwnerRef
    \/ OwnerLoopEnd
    \/ GetResource
    \/ UpdateResource
    \/ CreatePod
    \/ TimedOut
    \/ PollPhase
    \/ DeletePod

WaitUniverse ==
    { p \in PodUniverse :
        p.namespace = "ns1" /\ p.name \in {"database-e", "database", "web"} }

WaitLists ==
    UNION { { s \in [1..n -> WaitUniverse] : \A i, j \in 1..n : i # j => s[i] # s[j] }
            : n \in 0..MaxWaitPods }

WaitInit == \E list \in WaitLists : InitWith(list)

WaitSpec == WaitInit /\ [][WaitNext]_vars /\ WF_vars(WaitNext)

-----------------------------------------------------------------------------
(* The scan over lists of up to MaxScanPods pods of one namespace *)

ScanUniverse ==
    { p \in PodUniverse :
        p.namespace = "ns1" /\ p.name \in {"database-c", "database-e", "database", "web"} }

ScanLists ==
    UNION { { s \in [1..n -> ScanUniverse] : \A i, j \in 1..n : i # j => s[i] # s[j] }
            : n \in 1..MaxScanPods }

ScanInit == \E list \in ScanLists : InitWith(list)

ScanSpec == ScanInit /\ [][Next]_vars /\ WF_vars(Next)

-----------------------------------------------------------------------------
(* The end-to-end scenario: two pods of Deployment d, then an ownerless pod, *)
(* with a pod that does not match anywhere in the list or absent             *)

E2ECandidates ==
    << Pod("database-1", "ns1", <<Ref("Deployment", "d")>>),
       Pod("database-2", "ns1", <<Ref("Deployment", "d")>>),
       Pod("database", "ns1", <<>>) >>

E2ELists ==
    {E2ECandidates} \cup
    { SubSeq(E2ECandidates, 1, k) \o <<Pod("web", "ns1", <<>>)>>
        \o SubSeq(E2ECandidates, k + 1, Len(E2ECandidates)) : k \in 0..Len(E2ECandidates) }

E2EInit == \E list \in E2ELists : InitWith(list)

E2ESpec == E2EInit /\ [][Next]_vars

-----------------------------------------------------------------------------
(* restartPod's naming on names of every length up to MaxNameLen *)

NameChars == "database0123456789"

\* characters lo..hi of "database0123456789database0123..."
RECURSIVE NameFill(_, _)
NameFill(lo, hi) ==
    IF lo > hi THEN ""
    ELSE IF lo = hi
         THEN LET d == ((lo - 1) % Len(NameChars)) + 1 IN SubSeq(NameChars, d, d)
         ELSE LET mid == (lo + hi) \div 2 IN NameFill(lo, mid) \o NameFill(mid + 1, hi)

NameOfLen(n) == NameFill(1, n)

\* restartPod is entered with an ownerless pod whose name is n characters long
NameInit ==
    /\ \E n \in 1..MaxNameLen : pods = <<Pod(NameOfLen(n), "ns1", <<>>)>>
    /\ idx = 1
    /\ pc = "create"
    /\ oi = 0
    /\ cur = NoRef
    /\ newPod = ""
    /\ elapsed = 0
    /\ lastPoll = NoPoll
    /\ restarted = <<>>
    /\ allErrs = <<>>
    /\ calls = <<>>
    /\ cluster = {<<pods[1].name, pods[1].namespace>>}

NameNext == CreatePod

NameSpec == NameInit /\ [][NameNext]_vars

-----------------------------------------------------------------------------
(* Vocabulary of the properties *)

AllCallsOk == \A i \in 1..Len(calls) : calls[i].ok

\* number of Update calls issued against the controller (kind, name, namespace)
UpdatesOf(kind, name, namespace) ==
    Cardinality({ i \in 1..Len(calls) :
                    /\ calls[i].op = "Update"
                    /\ calls[i].kind = kind
                    /\ calls[i].name = name
                    /\ calls[i].namespace = namespace })

\* the Deployment a ReplicaSet owner reference of a pod in `namespace` leads to, "" if none
ParentDeployment(ref, namespace) ==
    LET refs == ReplicaSetOwners(ref.name, namespace)
        hits == { i \in 1..Len(refs) : refs[i].kind = "Deployment" }
    IN  IF ref.kind # "ReplicaSet" \/ hits = {} THEN ""
        ELSE refs[CHOOSE i \in hits : \A j \in hits : i <= j].name

\* p is owned by a ReplicaSet whose first Deployment owner is D
OwnedVia(p, D) ==
    \E k \in 1..Len(p.ownerRefs) : ParentDeployment(p.ownerRefs[k], p.namespace) = D

\* the composite keys name|kind|namespace of p's owner references
KeyOf(ref, p) == ref.name \o "|" \o ref.kind \o "|" \o p.namespace
Carries(p, K) == \E k \in 1..Len(p.ownerRefs) : KeyOf(p.ownerRefs[k], p) = K
RefPos(p, K) ==
    CHOOSE k \in 1..Len(p.ownerRefs) :
        /\ KeyOf(p.ownerRefs[k], p) = K
        /\ \A m \in 1..(k - 1) : KeyOf(p.ownerRefs[m], p) # K

IsCandidate(p) == StrContains(p.name, "database")

\* the next candidate after position i that carries an owner reference with key K, 0 if none
NextCarrier(i, K) ==
    LET later == { j \in (i + 1)..Len(pods) : IsCandidate(pods[j]) /\ Carries(pods[j], K) }
    IN  IF later = {} THEN 0 ELSE CHOOSE j \in later : \A m \in later : j <= m

\* a restart action for a controller key failed at call i
FailedRestart(i) == ~calls[i].ok /\ calls[i].op \in {"Get", "Update"}

\* the restart action that just returned an error left its key out of the ledger
KeyAbsentAfterFailure ==
    \A i \in 1..Len(calls) :
        (FailedRestart(i) /\ i = Len(calls) /\ pc = "scan" /\ idx = calls[i].at + 1)
        => ~SliceContains(restarted, calls[i].key)

\* this step issues a Delete call
DeleteIssued ==
    /\ Len(calls') = Len(calls) + 1
    /\ calls'[Len(calls')].op = "Delete"

-----------------------------------------------------------------------------
(* C1: two candidates in one namespace, each owned by a ReplicaSet (the same *)
(* or two distinct ones) whose first Deployment owner is D, processed in    *)
(* either order with every API call succeeding: the run issues exactly one  *)
(* Update call against D.                                                   *)
C1_OneUpdatePerDeployment ==
    (/\ pc = "done"
     /\ Len(pods) = 2
     /\ AllCallsOk
     /\ pods[1].namespace = pods[2].namespace)
    => \A D \in {"d"} :
         (OwnedVia(pods[1], D) /\ OwnedVia(pods[2], D))
         => UpdatesOf("Deployment", D, pods[1].namespace) = 1

-----------------------------------------------------------------------------
(* C2: when the restart action for the owner reference with key K returns  *)
(* an error, K is not in the ledger afterwards, and the next candidate of   *)
(* the run that carries an owner reference with key K attempts the restart  *)
(* for K again.                                                             *)
C2_FailedKeyRetried ==
    /\ KeyAbsentAfterFailure
    /\ \A i \in 1..Len(calls) :
        FailedRestart(i) =>
            LET K == calls[i].key
                j == NextCarrier(calls[i].at, K)
            IN  (j # 0 /\ idx > j)
                => \E m \in 1..Len(calls) : calls[m].at = j /\ calls[m].key = K

(* C2, amended: ... and the next candidate that carries an owner reference *)
(* with key K attempts the restart for K again, unless the restart for an   *)
(* earlier owner reference of that candidate returned an error (the         *)
(* resolver then returns before it reaches K).                              *)
C2_FailedKeyRetriedWhenReached ==
    /\ KeyAbsentAfterFailure
    /\ \A i \in 1..Len(calls) :
        FailedRestart(i) =>
            LET K == calls[i].key
                j == NextCarrier(calls[i].at, K)
            IN  (j # 0 /\ idx > j)
                => \/ \E m \in 1..Len(calls) : calls[m].at = j /\ calls[m].key = K
                   \/ \E m \in 1..Len(calls) :
                        /\ calls[m].at = j
                        /\ ~calls[m].ok
                        /\ Carries(pods[j], calls[m].key)
                        /\ RefPos(pods[j], calls[m].key) < RefPos(pods[j], K)

\* a key failed at one candidate and was attempted again at the next carrier
C2_Witness ==
    \E i, m \in 1..Len(calls) :
        /\ FailedRestart(i)
        /\ calls[m].at = NextCarrier(calls[i].at, calls[i].key)
        /\ calls[m].key = calls[i].key

-----------------------------------------------------------------------------
(* C3: every entry of the restarted ledger was inserted after a mutating   *)
(* API call made for that entry (an Update for a composite key, a Create    *)
(* for a bare pod name) returned success.                                   *)
C3_EntriesFollowSuccess ==
    \A k \in 1..Len(restarted) :
        \E i \in 1..Len(calls) :
            /\ calls[i].key = restarted[k]
            /\ calls[i].op \in {"Update", "Create"}
            /\ calls[i].ok

-----------------------------------------------------------------------------
(* C4: an owner reference whose kind is non-empty and outside ReplicaSet,  *)
(* Deployment, StatefulSet, DaemonSet is skipped: no entry for it is added  *)
(* to the restarted ledger.                                                 *)
C4_UnsupportedSkipped ==
    \A i \in 1..Len(pods) : \A k \in 1..Len(pods[i].ownerRefs) :
        LET ref == pods[i].ownerRefs[k] IN
        ref.kind \notin {"ReplicaSet", "Deployment", "StatefulSet", "DaemonSet", ""}
        => ~SliceContains(restarted, KeyOf(ref, pods[i]))

-----------------------------------------------------------------------------
(* C5: the restarted ledger never holds the same composite key or the same *)
(* bare pod name twice.                                                     *)
C5_LedgerNoDuplicates ==
    \A i, j \in 1..Len(restarted) : i # j => restarted[i] # restarted[j]

-----------------------------------------------------------------------------
(* C6: restartPod issues the Delete of the original only after the         *)
(* replacement was created successfully and a status poll of the            *)
(* replacement, by its name and namespace, returned Running; the Delete     *)
(* targets the original's name and namespace, never the replacement's, and  *)
(* no pod leaves the cluster in any other step.                             *)
C6_DeleteAfterRunningPoll ==
    [][/\ DeleteIssued =>
            /\ \E i \in 1..Len(calls) :
                /\ calls[i].op = "Create"
                /\ calls[i].ok
                /\ calls[i].at = idx
                /\ calls[i].name = lastPoll.name
                /\ calls[i].namespace = lastPoll.namespace
            /\ lastPoll.running
            /\ calls'[Len(calls')].name = pods[idx].name
            /\ calls'[Len(calls')].namespace = pods[idx].namespace
            /\ <<calls'[Len(calls')].name, calls'[Len(calls')].namespace>>
                 # <<lastPoll.name, lastPoll.namespace>>
       /\ (cluster \ cluster' # {}) =>
            /\ DeleteIssued
            /\ cluster \ cluster' = {<<pods[idx].name, pods[idx].namespace>>}
      ]_vars

\* an original has been deleted
C6_Witness ==
    \E i \in 1..Len(calls) :
        /\ calls[i].op = "Delete"
        /\ calls[i].ok
        /\ <<calls[i].name, calls[i].namespace>> \notin cluster

-----------------------------------------------------------------------------
(* C7: when the replacement was created and the elapsed time exceeds the   *)
(* 300 s timeout without a poll having observed Running, restartPod         *)
(* returns without error: no Delete is issued, the original and the         *)
(* replacement both exist afterwards, and the error list is unchanged.      *)
C7_TimeoutIsSilent ==
    [][(pc = "wait" /\ elapsed > 300) =>
            /\ pc' = "scan"
            /\ idx' = idx + 1
            /\ allErrs' = allErrs
            /\ calls' = calls
            /\ <<pods[idx].name, pods[idx].namespace>> \in cluster'
            /\ <<newPod, pods[idx].namespace>> \in cluster'
            /\ newPod # pods[idx].name
      ]_vars

\* a run ended in which a replacement timed out: created, never deleted, no error
C7_Witness ==
    /\ pc = "done"
    /\ allErrs = <<>>
    /\ \E i \in 1..Len(calls) :
        /\ calls[i].op = "Create"
        /\ calls[i].ok
        /\ \A j \in 1..Len(calls) : calls[j].op # "Delete"
        /\ {<<calls[i].name, calls[i].namespace>>,
            <<pods[calls[i].at].name, pods[calls[i].at].namespace>>} \subseteq cluster

-----------------------------------------------------------------------------
(* C8: for an original name of any length from 1 upward, the name of the   *)
(* replacement is at most ValidNameMaxLength = 255 characters long.         *)
C8_NameWithinMax ==
    \A i \in 1..Len(calls) : calls[i].op = "Create" => Len(calls[i].name) <= 255

-----------------------------------------------------------------------------
(* C9: for an original of at most 255 characters the replacement's name is *)
(* the whole original, a hyphen and a 4-character token (length + 5); for   *)
(* a longer original it is the original without its last 5 characters, a    *)
(* hyphen and a 4-character token, exactly as long as the original.         *)
C9_NameConstruction ==
    \A i \in 1..Len(calls) :
        calls[i].op = "Create" =>
            LET orig == pods[calls[i].at].name
                n == Len(orig)
                new == calls[i].name
                kept == IF n <= 255 THEN n ELSE n - 5
            IN  /\ Len(new) = kept + 5
                /\ SubSeq(new, 1, kept) = SubSeq(orig, 1, kept)
                /\ SubSeq(new, kept + 1, kept + 1) = "-"
                /\ \A k \in (kept + 2)..(kept + 5) : SubSeq(new, k, k) # "-"
                /\ n <= 255 => Len(new) = n + 5
                /\ n > 255 => Len(new) = n

\* a replacement was named for an original longer than 255 characters
C9_Witness ==
    \E i \in 1..Len(calls) :
        /\ calls[i].op = "Create"
        /\ calls[i].ok
        /\ Len(pods[calls[i].at].name) > 255

-----------------------------------------------------------------------------
(* C10: the readiness wait always terminates.  While the elapsed time does *)
(* not exceed 300 s every iteration issues a poll of the replacement: a     *)
(* poll that observes Running ends the wait (ready), any other poll is      *)
(* followed by a sleep of at least 2 s; at the first iteration at which     *)
(* the elapsed time exceeds 300 s the wait ends (timed out) and no poll is  *)
(* issued.                                                                  *)
C10_WaitTerminates ==
    /\ (pc = "wait") ~> (pc # "wait")
    /\ [][pc = "wait" =>
            IF elapsed > 300
            THEN pc' = "scan" /\ lastPoll' = NoPoll /\ calls' = calls
            ELSE /\ lastPoll'.name = newPod
                 /\ lastPoll'.namespace = pods[idx].namespace
                 /\ lastPoll'.running => pc' = "delete"
                 /\ ~lastPoll'.running => (pc' = "wait" /\ elapsed' >= elapsed + 2)
         ]_vars

\* a wait has run into the timeout after polling
C10_Witness ==
    /\ pc = "wait"
    /\ elapsed > 300
    /\ lastPoll.name = newPod
    /\ ~lastPoll.running


-----------------------------------------------------------------------------
(* Vocabulary of the properties, continued *)

\* the calls issued while candidate i was being processed
CallsAt(i) == { m \in 1..Len(calls) : calls[m].at = i }

Mutating(m) == calls[m].op \in {"Update", "Create", "Delete"}

\* candidate i is the first candidate of the list that carries the key K
FirstCarrier(i, K) ==
    \A j \in 1..(i - 1) : ~(IsCandidate(pods[j]) /\ Carries(pods[j], K))

\* p's only owner reference is a ReplicaSet that has a Deployment owner
SoleReplicaSetOwner(p) ==
    /\ Len(p.ownerRefs) = 1
    /\ ParentDeployment(p.ownerRefs[1], p.namespace) # ""

-----------------------------------------------------------------------------
(* C11: for a candidate whose single owner reference is a ReplicaSet R     *)
(* that has an owner reference to Deployment D, with every API call         *)
(* succeeding, restartResourceFromPod issues exactly one Update call        *)
(* against D and no Update, Create or Delete against R or any pod.          *)
C11_EscalatesToDeployment ==
    [](\A i \in 1..Len(pods) :
        (/\ idx > i
         /\ SoleReplicaSetOwner(pods[i])
         /\ IsCandidate(pods[i])
         /\ FirstCarrier(i, KeyOf(pods[i].ownerRefs[1], pods[i]))
         /\ \A m \in CallsAt(i) : calls[m].ok)
        => LET D == ParentDeployment(pods[i].ownerRefs[1], pods[i].namespace)
               onD(m) == /\ calls[m].op = "Update"
                         /\ calls[m].kind = "Deployment"
                         /\ calls[m].name = D
                         /\ calls[m].namespace = pods[i].namespace
           IN  /\ Cardinality({ m \in CallsAt(i) : onD(m) }) = 1
               /\ \A m \in CallsAt(i) : Mutating(m) => onD(m))

\* such a candidate has been restarted through its ReplicaSet
C11_Witness ==
    /\ pc = "done"
    /\ AllCallsOk
    /\ \E i \in 1..Len(pods) :
        /\ SoleReplicaSetOwner(pods[i])
        /\ \E m \in CallsAt(i) : calls[m].op = "Update" /\ calls[m].kind = "Deployment"


-----------------------------------------------------------------------------
(* C12: when a candidate is owned by a ReplicaSet that is fetched          *)
(* successfully and has no owner classified Deployment, the restart         *)
(* returns success with nothing restarted: no Update, Create or Delete is   *)
(* issued for it, no error is recorded, and the restarted set holds         *)
(* nothing for that ReplicaSet.                                             *)
C12_OrphanReplicaSetIsNoOp ==
    \A i \in 1..Len(pods) : \A k \in 1..Len(pods[i].ownerRefs) :
        LET ref == pods[i].ownerRefs[k]
            K == KeyOf(ref, pods[i])
        IN  (/\ ref.kind = "ReplicaSet"
             /\ ParentDeployment(ref, pods[i].namespace) = ""
             /\ \E m \in CallsAt(i) : calls[m].key = K /\ calls[m].op = "Get" /\ calls[m].ok)
            => /\ \A m \in CallsAt(i) : calls[m].key = K => (calls[m].ok /\ ~Mutating(m))
               /\ ~SliceContains(restarted, K)


-----------------------------------------------------------------------------
(* C13: when the restart action for an owner reference of a candidate      *)
(* returns an error, restartResourceFromPod returns it at once: the error   *)
(* reaches main, no call is made for a later owner reference of that        *)
(* candidate, the failing key is not added to the ledger, and the keys      *)
(* recorded for its earlier owner references stay.                          *)
RestartFails ==
    /\ Len(calls') = Len(calls) + 1
    /\ ~calls'[Len(calls')].ok
    /\ calls'[Len(calls')].op \in {"Get", "Update"}

C13_FailFastPerInstance ==
    /\ [][RestartFails =>
            /\ pc' = "scan"
            /\ idx' = idx + 1
            /\ restarted' = restarted
            /\ ~SliceContains(restarted', calls'[Len(calls')].key)
            /\ Len(allErrs') = Len(allErrs) + 1
            /\ allErrs'[Len(allErrs')].name = pods[idx].name
         ]_vars
    /\ [](\A i \in 1..Len(calls) :
            FailedRestart(i) => \A m \in CallsAt(calls[i].at) : m <= i)

\* a middle owner reference failed after an earlier one had been recorded
C13_Witness ==
    \E i \in 1..Len(calls) :
        LET p == pods[calls[i].at]
            K == calls[i].key
        IN  /\ FailedRestart(i)
            /\ idx > calls[i].at
            /\ RefPos(p, K) > 1
            /\ RefPos(p, K) < Len(p.ownerRefs)
            /\ SliceContains(restarted, KeyOf(p.ownerRefs[1], p))


-----------------------------------------------------------------------------
(* C14: a failure of restartResourceFromPod on one candidate never stops   *)
(* the scan.  Every pod of the list whose name contains the match string    *)
(* is handed to restartResourceFromPod exactly once, in list order,         *)
(* whatever earlier candidates returned; the error list holds exactly one   *)
(* entry per candidate whose restart returned an error, in processing       *)
(* order; and the run reaches its final report.                             *)
FailedAt == { i \in 1..Len(pods) : \E m \in CallsAt(i) : ~calls[m].ok }

FailedInOrder == SelectSeq([i \in 1..Len(pods) |-> i], LAMBDA i : i \in FailedAt)

C14_ScanSurvivesFailures ==
    /\ <>(pc = "done")
    /\ [][/\ idx' = idx \/ idx' = idx + 1
          /\ (pc = "scan" /\ idx' = idx + 1) => ~IsCandidate(pods[idx])
          /\ (pc = "scan" /\ idx <= Len(pods) /\ IsCandidate(pods[idx]))
                => (idx' = idx /\ pc' \in {"scan", "owner", "create"})
         ]_vars
    /\ [](/\ pc \notin {"scan", "done"} => IsCandidate(pods[idx])
          /\ pc = "done" => idx = Len(pods) + 1
          /\ Len(allErrs) = Len(FailedInOrder)
          /\ \A k \in 1..Len(allErrs) : allErrs[k].name = pods[FailedInOrder[k]].name)

\* the first candidate failed and the second one was still restarted
C14_Witness ==
    /\ pc = "done"
    /\ Len(pods) = 2
    /\ 1 \in FailedAt
    /\ \E m \in CallsAt(2) : calls[m].ok /\ Mutating(m)


-----------------------------------------------------------------------------
(* C15: end to end, for the candidates [A owned by Deployment d, B owned   *)
(* by Deployment d, ownerless C] in ns1 with every API call succeeding:     *)
(* the run issues exactly one Update on d and exactly one Create; once a    *)
(* poll observes C's replacement Running before the timeout the Delete of   *)
(* C is issued, exactly once; the run ends with the ledger                  *)
(* [d|Deployment|ns1, C] (count 2) and an empty error list.                 *)
CountCalls(op) == Cardinality({ m \in 1..Len(calls) : calls[m].op = op })

C15_EndToEnd ==
    /\ []((pc = "done" /\ AllCallsOk) =>
            /\ UpdatesOf("Deployment", "d", "ns1") = 1
            /\ CountCalls("Update") = 1
            /\ CountCalls("Create") = 1
            /\ CountCalls("Delete") <= 1
            /\ restarted = <<"d|Deployment|ns1", "database">>
            /\ Len(restarted) = 2
            /\ allErrs = <<>>)
    /\ [][/\ (pc = "wait" /\ lastPoll'.running) => pc' = "delete"
          /\ (pc = "delete" /\ pc' # "delete") =>
                /\ DeleteIssued
                /\ calls'[Len(calls')].name = "database"
                /\ calls'[Len(calls')].namespace = "ns1"
         ]_vars

\* the scenario has run to its report with C replaced
C15_Witness ==
    /\ pc = "done"
    /\ AllCallsOk
    /\ CountCalls("Delete") = 1
    /\ <<"database", "ns1">> \notin cluster
    /\ Len(restarted) = 2


-----------------------------------------------------------------------------
(* C16: during the readiness wait a poll whose Get fails, or that reports  *)
(* any phase other than Running (Pending, and the terminal Succeeded and    *)
(* Failed), counts as not yet running: it neither ends the wait nor makes   *)
(* restartPod return an error, and polling goes on until a poll reports     *)
(* Running or the timeout has elapsed.                                      *)
C16_NotRunningKeepsPolling ==
    /\ [][(pc = "wait" /\ lastPoll'.phase \in {"GetError", "Pending", "Succeeded", "Failed"})
            => /\ pc' = "wait"
               /\ idx' = idx
               /\ allErrs' = allErrs
               /\ restarted' = restarted
               /\ calls' = calls
               /\ cluster' = cluster
         ]_vars
    /\ (pc = "wait") ~> (lastPoll.phase = "Running" \/ (pc = "wait" /\ elapsed > 300))

\* the wait went on after a poll that reported a terminal phase
C16_Witness ==
    /\ pc = "wait"
    /\ lastPoll.phase = "Failed"
    /\ elapsed > 2
    /\ elapsed <= 300


-----------------------------------------------------------------------------
\* number of successful Update calls issued against the controller (kind, name, namespace)
SuccessfulUpdatesOf(kind, name, namespace) ==
    Cardinality({ m \in 1..Len(calls) :
                    /\ calls[m].op = "Update"
                    /\ calls[m].ok
                    /\ calls[m].kind = kind
                    /\ calls[m].name = name
                    /\ calls[m].namespace = namespace })

\* the restart for the controller key K has succeeded
RestartSucceeded(K) ==
    \E m \in 1..Len(calls) : calls[m].op = "Update" /\ calls[m].ok /\ calls[m].key = K

\* the owner loop stands at an owner reference whose key is in the ledger
LedgerHit ==
    /\ pc = "owner"
    /\ oi <= Len(pod.ownerRefs)
    /\ SliceContains(restarted, MatchKey(ownerRef, pod))

\* the later ledger hits make no call and leave the ledger and the error list alone
LedgerHitIsSilent ==
    [][LedgerHit => (calls' = calls /\ restarted' = restarted /\ allErrs' = allErrs)]_vars

(* C17: for the candidates that carry an owner reference with the same     *)
(* (name, kind, namespace), kind Deployment, StatefulSet or DaemonSet, once *)
(* the first restart of that controller has succeeded exactly one           *)
(* successful Update call is issued against it in the run, and each later   *)
(* ledger hit makes no Get or Update call and leaves the ledger and the     *)
(* error list unchanged.                                                    *)
C17_OneUpdatePerController ==
    /\ [](\A i \in 1..Len(pods) : \A k \in 1..Len(pods[i].ownerRefs) :
            LET ref == pods[i].ownerRefs[k] IN
            (/\ IsCandidate(pods[i])
             /\ ref.kind \in {"Deployment", "StatefulSet", "DaemonSet"}
             /\ RestartSucceeded(KeyOf(ref, pods[i])))
            => SuccessfulUpdatesOf(ref.kind, ref.name, pods[i].namespace) = 1)
    /\ LedgerHitIsSilent


-----------------------------------------------------------------------------
\* this step issues a call `op` that fails
FailingCall(op) ==
    /\ Len(calls') = Len(calls) + 1
    /\ calls'[Len(calls')].op = op
    /\ ~calls'[Len(calls')].ok

\* call m is a failed call `op`
FailedCall(m, op) == calls[m].op = op /\ ~calls[m].ok

\* the calls issued for the same pod after call m
LaterCallsAt(m) == { n \in CallsAt(calls[m].at) : n > m }

(* C18: a restart action stops at its first failing API call.  After a     *)
(* failed Get of a Deployment, DaemonSet, StatefulSet or ReplicaSet no      *)
(* Update is issued for it; after a failed Create of a replacement no       *)
(* status poll and no Delete are issued and the original stays in the       *)
(* cluster; in each case the error is returned, the pod's name is appended  *)
(* to the error list and nothing is added to the ledger for that action.    *)
C18_StopsAtFirstFailingCall ==
    /\ [][(FailingCall("Get") \/ FailingCall("Create")) =>
            /\ calls'[Len(calls')].kind \in
                   {"Deployment", "DaemonSet", "StatefulSet", "ReplicaSet", "Pod"}
            /\ pc' = "scan"
            /\ idx' = idx + 1
            /\ lastPoll' = NoPoll
            /\ cluster' = cluster
            /\ restarted' = restarted
            /\ Len(allErrs') = Len(allErrs) + 1
            /\ SubSeq(allErrs', 1, Len(allErrs)) = allErrs
            /\ allErrs'[Len(allErrs')].name = pods[idx].name
         ]_vars
    /\ [][pc' = "wait" =>
            \/ pc = "wait"
            \/ /\ Len(calls') = Len(calls) + 1
               /\ calls'[Len(calls')].op = "Create"
               /\ calls'[Len(calls')].ok
         ]_vars
    /\ [](\A m \in 1..Len(calls) :
            /\ FailedCall(m, "Get") =>
                 \A n \in LaterCallsAt(m) : calls[n].op \notin {"Get", "Update"}
            /\ FailedCall(m, "Create") =>
                 /\ \A n \in LaterCallsAt(m) : calls[n].op # "Delete"
                 /\ <<pods[calls[m].at].name, pods[calls[m].at].namespace>> \in cluster)

\* the scan went on after a failed Get of a Deployment reached through a ReplicaSet
\* and after a failed Create, the original still there
C18_Witness ==
    /\ pc = "done"
    /\ \E m \in 1..Len(calls) :
        /\ FailedCall(m, "Get")
        /\ calls[m].kind = "Deployment"
        /\ m > 1
        /\ calls[m - 1].kind = "ReplicaSet"
        /\ calls[m - 1].at = calls[m].at
    /\ \E m \in 1..Len(calls) :
        /\ FailedCall(m, "Create")
        /\ <<pods[calls[m].at].name, pods[calls[m].at].namespace>> \in cluster


-----------------------------------------------------------------------------
\* candidate i has at least one owner reference
OwnedCandidate(i) == IsCandidate(pods[i]) /\ Len(pods[i].ownerRefs) > 0

\* some candidate without owner references bears the name
OwnerlessNamed(name) ==
    \E j \in 1..Len(pods) :
        IsCandidate(pods[j]) /\ pods[j].ownerRefs = <<>> /\ pods[j].name = name

(* C19: Create and Delete calls are issued only for candidates that have   *)
(* zero owner references.  A candidate with at least one owner reference,   *)
(* of any kind (the empty and the unsupported ones included), is never      *)
(* cloned and never deleted by the run, and its bare name is never added    *)
(* to the ledger.                                                           *)
C19_OnlyOwnerlessPodsReplaced ==
    /\ [](\A m \in 1..Len(calls) :
            calls[m].op \in {"Create", "Delete"} =>
                /\ IsCandidate(pods[calls[m].at])
                /\ pods[calls[m].at].ownerRefs = <<>>
                /\ calls[m].namespace = pods[calls[m].at].namespace
                /\ calls[m].op = "Delete" => calls[m].name = pods[calls[m].at].name)
    /\ [](\A i \in 1..Len(pods) :
            OwnedCandidate(i) =>
                /\ <<pods[i].name, pods[i].namespace>> \in cluster
                /\ \A m \in CallsAt(i) : calls[m].op \in {"Get", "Update"}
                /\ SliceContains(restarted, pods[i].name) => OwnerlessNamed(pods[i].name))
    /\ [][(idx <= Len(pods) /\ OwnedCandidate(idx) /\ restarted' # restarted) =>
            /\ Len(restarted') = Len(restarted) + 1
            /\ Carries(pods[idx], restarted'[Len(restarted')])
            /\ restarted'[Len(restarted')] # pods[idx].name
         ]_vars

\* the run replaced an ownerless pod and went through a pod that carries an owner
\* reference of empty kind
C19_Witness ==
    /\ pc = "done"
    /\ \E m \in 1..Len(calls) : calls[m].op = "Delete" /\ calls[m].ok
    /\ \E i \in 1..Len(pods) :
        /\ OwnedCandidate(i)
        /\ \E k \in 1..Len(pods[i].ownerRefs) : pods[i].ownerRefs[k].kind = ""


-----------------------------------------------------------------------------
\* number of candidates of the list that have no owner references
OwnerlessCandidates ==
    Cardinality({ i \in 1..Len(pods) : IsCandidate(pods[i]) /\ pods[i].ownerRefs = <<>> })

\* the pod (name, namespace) is an entry of the list
Listed(name, namespace) ==
    \E i \in 1..Len(pods) : pods[i].name = name /\ pods[i].namespace = namespace

(* C20: the candidate list is a snapshot taken by the single List call     *)
(* before any mutation.  A replacement created during the run, whose name   *)
(* contains the match string, is never selected or restarted in the same    *)
(* run: the number of Create calls is at most the number of ownerless       *)
(* matching pods of the initial list, and the scan terminates.              *)
C20_ListIsSnapshot ==
    /\ [][pods' = pods]_vars
    /\ [](CountCalls("Create") <= OwnerlessCandidates)
    /\ [](\A m \in 1..Len(calls) :
            (calls[m].op = "Create" /\ calls[m].ok) =>
                /\ StrContains(calls[m].name, "database")
                /\ ~Listed(calls[m].name, calls[m].namespace)
                /\ \A n \in 1..Len(calls) :
                     ~(/\ calls[n].namespace = calls[m].namespace
                       /\ calls[n].key = calls[m].name
                       /\ calls[n].op \in {"Create", "Delete"}))
    /\ <>(pc = "done")

\* the run is over and a replacement it created, a match by name, is in the cluster
C20_Witness ==
    /\ pc = "done"
    /\ \E m \in 1..Len(calls) :
        /\ calls[m].op = "Create"
        /\ calls[m].ok
        /\ StrContains(calls[m].name, "database")
        /\ <<calls[m].name, calls[m].namespace>> \in cluster
        /\ CountCalls("Create") = OwnerlessCandidates

====
